---- MODULE Spec2Model ----
(***************************************************************************)
(* Model of the Claid.ai relay, netlify/functions/claid-proxy.ts.          *)
(*                                                                         *)
(* One invocation of `handler` is followed from the incoming event to the  *)
(* value the handler resolves with.  The handler is an async function with *)
(* two await points (fetch, and the read of the upstream body), so it is   *)
(* three steps: Invoke (lines 21-60), the settling of fetch (lines 53-72)  *)
(* and the settling of the body read (lines 63-82), each followed by the   *)
(* catch block (lines 84-90) when it raises.                               *)
(*                                                                         *)
(* JavaScript strings that the code splits, decodes or encodes are         *)
(* sequences of one-character strings; messages that are only concatenated *)
(* and compared are TLA+ strings.                                          *)
(***************************************************************************)
EXTENDS Integers, Sequences, FiniteSets, TLC

\* Longest byte buffer a client sends or the upstream answers with.
MaxLen == 2

(***************************************************************************)
(* Strings and Base64                                                      *)
(***************************************************************************)

\* The separator the handler splits the data URL on (line 41).
Marker == <<";", "b", "a", "s", "e", "6", "4", ",">>

PngMime == <<"i", "m", "a", "g", "e", "/", "p", "n", "g">>
JpegMime == <<"i", "m", "a", "g", "e", "/", "j", "p", "e", "g">>
DataPrefix == <<"d", "a", "t", "a", ":">>

\* The Base64 alphabet; the character of sextet v is B64Alphabet[v + 1].
B64Alphabet ==
  << "A", "B", "C", "D", "E", "F", "G", "H", "I", "J", "K", "L", "M",
     "N", "O", "P", "Q", "R", "S", "T", "U", "V", "W", "X", "Y", "Z",
     "a", "b", "c", "d", "e", "f", "g", "h", "i", "j", "k", "l", "m",
     "n", "o", "p", "q", "r", "s", "t", "u", "v", "w", "x", "y", "z",
     "0", "1", "2", "3", "4", "5", "6", "7", "8", "9", "+", "/" >>

\* Position of the first occurrence of sep in s at or after from, 0 if none.
IndexOf(s, sep, from) ==
  LET hits == { i \in from..(Len(s) - Len(sep) + 1) :
                  SubSeq(s, i, i + Len(sep) - 1) = sep }
  IN IF hits = {} THEN 0 ELSE CHOOSE i \in hits : \A j \in hits : i <= j

\* String.prototype.split with a non-empty string separator: the pieces
\* between the successive occurrences of sep, scanning left to right.
RECURSIVE Split(_, _)
Split(s, sep) ==
  LET i == IndexOf(s, sep, 1)
  IN IF i = 0
       THEN << s >>
       ELSE << SubSeq(s, 1, i - 1) >> \o Split(SubSeq(s, i + Len(sep), Len(s)), sep)

\* Array.prototype.pop on a non-empty array: its last element.
Pop(arr) == arr[Len(arr)]

\* Mutant of SplitPop: the first piece instead of the last (shift for pop).
SplitShift(s) == Split(s, Marker)[1]

\* imageBase64.split(';base64,').pop() (line 41).
SplitPop(s) == Pop(Split(s, Marker))

\* Value of a character for the Base64 decoder of Buffer.from: the standard
\* alphabet, and '-' and '_' of the URL-safe alphabet; -1 for any other.
Unbase64(c) ==
  IF \E i \in 1..64 : B64Alphabet[i] = c
    THEN (CHOOSE i \in 1..64 : B64Alphabet[i] = c) - 1
    ELSE IF c = "-" THEN 62 ELSE IF c = "_" THEN 63 ELSE -1

\* The sextets the decoder consumes: it stops at the first '=' and skips
\* every character outside the alphabet.
RECURSIVE Sextets(_)
Sextets(s) ==
  IF s = << >> \/ Head(s) = "=" THEN << >>
  ELSE IF Unbase64(Head(s)) < 0 THEN Sextets(Tail(s))
  ELSE << Unbase64(Head(s)) >> \o Sextets(Tail(s))

\* Bytes of a run of sextets: 4 sextets give 3 bytes, a trailing group of
\* 3 gives 2 bytes, of 2 gives 1 byte, a single trailing sextet gives none.
RECURSIVE BytesOf(_)
BytesOf(x) ==
  IF Len(x) < 2 THEN << >>
  ELSE LET b1 == (x[1] * 4 + (x[2] \div 16)) % 256
       IN IF Len(x) = 2 THEN << b1 >>
          ELSE LET b2 == ((x[2] % 16) * 16 + (x[3] \div 4)) % 256
               IN IF Len(x) = 3 THEN << b1, b2 >>
                  ELSE << b1, b2, ((x[3] % 4) * 64 + x[4]) % 256 >>
                         \o BytesOf(SubSeq(x, 5, Len(x)))

\* Buffer.from(base64Data, 'base64') (line 45): never raises on a string.
BufferFrom(s) == BytesOf(Sextets(s))

\* resultBuffer.toString('base64') (line 76): standard alphabet, padded.
RECURSIVE ToBase64(_)
ToBase64(buf) ==
  IF buf = << >> THEN << >>
  ELSE LET c1 == B64Alphabet[(buf[1] \div 4) + 1]
       IN IF Len(buf) = 1
            THEN << c1, B64Alphabet[((buf[1] % 4) * 16) + 1], "=", "=" >>
            ELSE LET c2 == B64Alphabet[((buf[1] % 4) * 16 + (buf[2] \div 16)) + 1]
                 IN IF Len(buf) = 2
                      THEN << c1, c2, B64Alphabet[((buf[2] % 16) * 4) + 1], "=" >>
                      ELSE << c1, c2,
                              B64Alphabet[((buf[2] % 16) * 4 + (buf[3] \div 64)) + 1],
                              B64Alphabet[(buf[3] % 64) + 1] >>
                             \o ToBase64(SubSeq(buf, 4, Len(buf)))

\* `data:${resultMimeType};base64,${...}` (line 76).
DataUrl(mime, payload) == DataPrefix \o mime \o Marker \o payload

(***************************************************************************)
(* JavaScript values                                                       *)
(***************************************************************************)

Undefined == [t |-> "undefined"]
Null == [t |-> "null"]
Bool(b) == [t |-> "boolean", b |-> b]
Num(n) == [t |-> "number", n |-> n]
Str(s) == [t |-> "string", s |-> s]
\* An object or array none of whose own properties the handler reads.
Obj(id) == [t |-> "object", id |-> id]
\* An object with the two properties the handler destructures (line 31);
\* a property the body does not carry is Undefined.
Envelope(img, ins) == [t |-> "object", imageBase64 |-> img, instructions |-> ins]

\* ToBoolean, as applied by `!` and `||`.
Truthy(v) ==
  CASE v.t = "undefined" -> FALSE
    [] v.t = "null" -> FALSE
    [] v.t = "boolean" -> v.b
    [] v.t = "number" -> v.n # 0
    [] v.t = "string" -> v.s # << >>
    [] OTHER -> TRUE

\* Results of a step that may raise.
Ok(v) == [ok |-> TRUE, val |-> v]
Raise(e) == [ok |-> FALSE, error |-> e]

(***************************************************************************)
(* Inputs                                                                  *)
(***************************************************************************)

Bytes == {0, 173, 222}

Buffers == UNION { [1..n -> Bytes] : n \in 0..MaxLen }

Methods == {"POST", "GET", "OPTIONS"}

Chars(set) == { Str(s) : s \in set }

\* imageBase64 as a client can send it: falsy values, values that are no
\* string, data URLs of every buffer, and strings without the marker, with
\* the marker twice, and with a payload that is only padding.
ImageValues ==
  {Undefined, Null, Bool(FALSE), Num(0), Str(<< >>), Bool(TRUE), Num(5), Obj("array")}
    \cup Chars({ DataUrl(PngMime, ToBase64(B)) : B \in Buffers })
    \cup Chars({ ToBase64(B) : B \in Buffers \ {<< >>} })
    \cup Chars({ <<"h", "i", "!">>,
                 DataUrl(PngMime, <<"A", "A", "A", "A">>),
                 DataUrl(JpegMime, <<"A", "A", "A", "A">>),
                 DataPrefix \o Marker \o Marker \o <<"3", "q", "0", "=">>,
                 DataUrl(PngMime, <<"=", "=">>) })

InstructionValues ==
  {Undefined, Null, Num(0), Str(<<"x">>), Obj("generative_filter")}

\* event.body: null, '', a text that is no JSON, or the text of a JSON value.
Bodies ==
  { [k |-> "absent"], [k |-> "empty"], [k |-> "malformed"] }
    \cup { [k |-> "json", val |-> v] :
             v \in {Null, Num(5), Str(<<"h", "i", "!">>), Obj("array")}
                     \cup { Envelope(i, n) : i \in ImageValues, n \in InstructionValues } }

Events == [httpMethod : Methods, body : Bodies]

\* What the upstream can answer with.
Statuses == {200, 204, 304, 400, 404, 503}
ContentTypes == {Null, Str(<< >>), Str(PngMime), Str(JpegMime)}
Texts == {"rate limited", "", "Unauthorized"}

(***************************************************************************)
(* The handler's steps (claid-proxy.ts, lines 21-91)                       *)
(***************************************************************************)

CLAID_API_KEY == "b075a8d36b374209ac11df342fe68a73"
CLAID_API_BASE_URL == "https://api.claid.ai/v1/image-processing"

\* Mutant of MethodAllowed: the method check is missing.
MethodAllowedAny(e) == TRUE

\* Line 23: only POST goes on.
MethodAllowed(e) == e.httpMethod = "POST"

\* Line 31: event.body || '{}'.
BodyOrDefault(body) ==
  IF body.k \in {"absent", "empty"}
    THEN [k |-> "json", val |-> Envelope(Undefined, Undefined)]
    ELSE body

\* Mutant of JSONParse: a text that is no JSON is taken for an empty object.
JSONParseLenient(text) ==
  IF text.k = "malformed" THEN [ok |-> TRUE, val |-> [t |-> "object", id |-> "empty"]]
  ELSE [ok |-> TRUE, val |-> text.val]

\* Line 31: JSON.parse raises a SyntaxError on a text that is no JSON.
JSONParse(text) ==
  IF text.k = "malformed"
    THEN Raise("SyntaxError: Unexpected token in JSON")
    ELSE Ok(text.val)

\* Line 31: const { imageBase64, instructions } = <value>; destructuring
\* null raises, a primitive or an object without the properties gives
\* undefined for both.
Destructure(v) ==
  IF v.t \in {"null", "undefined"}
    THEN Raise("TypeError: Cannot destructure property 'imageBase64'")
    ELSE IF "imageBase64" \in DOMAIN v
      THEN Ok([imageBase64 |-> v.imageBase64, instructions |-> v.instructions])
      ELSE Ok([imageBase64 |-> Undefined, instructions |-> Undefined])

\* Line 33.
Missing(imageBase64, instructions) == ~Truthy(imageBase64) \/ ~Truthy(instructions)

\* Line 41: only a string has a split method.
Base64Data(imageBase64) ==
  IF imageBase64.t = "string"
    THEN Ok(SplitPop(imageBase64.s))
    ELSE Raise("TypeError: imageBase64.split is not a function")

\* Mutant of NoBase64Data: the check of line 42 is missing.
NoBase64DataNever(base64Data) == FALSE

\* Line 42: !base64Data.
NoBase64Data(base64Data) == base64Data = << >>

\* Lines 48-60: the one request sent upstream.
UpstreamRequest(imageBuffer, instructions) ==
  [ url |-> CLAID_API_BASE_URL,
    method |-> "POST",
    authorization |-> "Claid-API-Key " \o CLAID_API_KEY,
    source_image |-> [bytes |-> imageBuffer, filename |-> "upload.png",
                      contentType |-> PngMime],
    instructions |-> instructions ]

\* Line 62: response.ok.
ResponseOk(status) == status >= 200 /\ status < 300

\* Mutant of ResultMimeType: the upstream's content-type is ignored.
ResultMimeTypeAlwaysPng(contentType) ==
  << "i", "m", "a", "g", "e", "/", "p", "n", "g" >>

\* Line 73.
ResultMimeType(contentType) == IF Truthy(contentType) THEN contentType.s ELSE PngMime

\* What the handler resolves with, or raises.
Return(status, body) == [kind |-> "return", statusCode |-> status, body |-> body]
Throw(e) == [kind |-> "throw", error |-> e]

\* Lines 24-27.
MethodNotAllowed == Return(405, [error |-> "Method Not Allowed"])
\* Lines 34-37.
MissingFields ==
  Return(400, [error |-> "Missing imageBase64 or instructions in request body"])
\* Line 43.
InvalidBase64 == Return(400, [error |-> "Invalid Base64 data"])
\* Mutant of UpstreamFailed: every upstream failure is reported as 502.
UpstreamFailedAs502(status, errorBody) ==
  [kind |-> "return", statusCode |-> 502,
   body |-> [error |-> "Claid.ai API failed: " \o errorBody]]

\* Lines 65-68.
UpstreamFailed(status, errorBody) ==
  Return(status, [error |-> "Claid.ai API failed: " \o errorBody])
\* Line 64.
UpstreamFailedLog(status, errorBody) ==
  << [line |-> "Claid.ai API Error:", status |-> status, detail |-> errorBody] >>
\* Lines 76-82.
Success(mime, resultBuffer) ==
  [ kind |-> "return", statusCode |-> 200,
    headers |-> [ContentType |-> "application/json"],
    body |-> [imageData |-> DataUrl(mime, ToBase64(resultBuffer))] ]
\* Mutant of CatchOutcome: the catch block raises the exception again.
CatchRethrow(error) == [kind |-> "throw", error |-> error]

\* Mutant of CatchLog: the catch block writes nothing.
CatchSilent(error) == << >>

\* Lines 86-89.
InternalError == "An internal error occurred in the proxy function."
CatchOutcome(error) == Return(500, [error |-> InternalError])
\* Line 85.
CatchLog(error) == << [line |-> "Proxy Error:", detail |-> error] >>

(***************************************************************************)
(* State of one invocation                                                 *)
(***************************************************************************)

VARIABLES
  event,     \* the HandlerEvent of the invocation
  pc,        \* "idle", "fetch", "text", "buffer" (the awaits) or "done"
  parsed,    \* JSON.parse has been applied to the body
  sent,      \* the requests sent upstream, in order
  reply,     \* what fetch resolved with
  received,  \* what the read of the upstream body resolved with
  raised,    \* the exception raised inside the try block, "none" if none
  outcome,   \* what the handler resolved with, or raised to its caller
  log,       \* the lines written with console.error
  trace      \* the handler's effects in order: "fetch", "log", then its end

vars == << event, pc, parsed, sent, reply, received, raised, outcome, log, trace >>

NoEvent == [k |-> "none"]
NoReply == [k |-> "none"]
NoBody == [k |-> "none"]
Pending == [kind |-> "pending"]

Init ==
  /\ event = NoEvent
  /\ pc = "idle"
  /\ parsed = FALSE
  /\ sent = << >>
  /\ reply = NoReply
  /\ received = NoBody
  /\ raised = "none"
  /\ outcome = Pending
  /\ log = << >>
  /\ trace = << >>

\* The handler ends: it writes its lines to the log, then resolves or raises.
Finish(out, lines) ==
  /\ pc' = "done"
  /\ outcome' = out
  /\ log' = log \o lines
  /\ trace' = trace \o [i \in 1..Len(lines) |-> "log"] \o << out.kind >>

\* Lines 84-90: the catch block.
Catch(error) ==
  /\ raised' = error
  /\ Finish(CatchOutcome(error), CatchLog(error))

\* Lines 21-60: from the call of the handler to the await of fetch.
Invoke(e) ==
  /\ pc = "idle"
  /\ event' = e
  /\ UNCHANGED << reply, received >>
  /\ IF ~MethodAllowed(e)
       THEN Finish(MethodNotAllowed, << >>) /\ UNCHANGED << parsed, raised, sent >>
       ELSE
         /\ parsed' = TRUE
         /\ LET p == JSONParse(BodyOrDefault(e.body))
            IN IF ~p.ok THEN Catch(p.error) /\ UNCHANGED sent
               ELSE LET d == Destructure(p.val)
                    IN IF ~d.ok THEN Catch(d.error) /\ UNCHANGED sent
                       ELSE IF Missing(d.val.imageBase64, d.val.instructions)
                         THEN Finish(MissingFields, << >>) /\ UNCHANGED << raised, sent >>
                         ELSE LET b == Base64Data(d.val.imageBase64)
                              IN IF ~b.ok THEN Catch(b.error) /\ UNCHANGED sent
                                 ELSE IF NoBase64Data(b.val)
                                   THEN Finish(InvalidBase64, << >>)
                                        /\ UNCHANGED << raised, sent >>
                                   ELSE
                                     /\ sent' = Append(sent,
                                          UpstreamRequest(BufferFrom(b.val),
                                                          d.val.instructions))
                                     /\ trace' = Append(trace, "fetch")
                                     /\ pc' = "fetch"
                                     /\ UNCHANGED << raised, outcome, log >>

\* Lines 53 and 62: fetch resolves with the upstream's status and headers
\* (any status: node-fetch rejects only when no response arrives).
FetchResolve(status, contentType) ==
  /\ pc = "fetch"
  /\ reply' = [k |-> "reply", status |-> status, contentType |-> contentType]
  /\ pc' = IF ResponseOk(status) THEN "buffer" ELSE "text"
  /\ UNCHANGED << event, parsed, sent, received, raised, outcome, log, trace >>

\* Line 53: fetch rejects (network error).
FetchReject ==
  /\ pc = "fetch"
  /\ Catch("FetchError: request to upstream failed")
  /\ UNCHANGED << event, parsed, sent, reply, received >>

\* Lines 63-68: response.text() resolves.
TextResolve(errorBody) ==
  /\ pc = "text"
  /\ received' = [k |-> "text", text |-> errorBody]
  /\ Finish(UpstreamFailed(reply.status, errorBody),
            UpstreamFailedLog(reply.status, errorBody))
  /\ UNCHANGED << event, parsed, sent, reply, raised >>

\* Line 63: response.text() rejects.
TextReject ==
  /\ pc = "text"
  /\ Catch("FetchError: Invalid response body while reading text")
  /\ UNCHANGED << event, parsed, sent, reply, received >>

\* Lines 72-82: response.buffer() resolves.
BufferResolve(resultBuffer) ==
  /\ pc = "buffer"
  /\ received' = [k |-> "bytes", bytes |-> resultBuffer]
  /\ Finish(Success(ResultMimeType(reply.contentType), resultBuffer), << >>)
  /\ UNCHANGED << event, parsed, sent, reply, raised >>

\* Line 72: response.buffer() rejects.
BufferReject ==
  /\ pc = "buffer"
  /\ Catch("FetchError: Invalid response body while reading buffer")
  /\ UNCHANGED << event, parsed, sent, reply, received >>

\* The bodies an upstream can answer with: any buffer, and what it was sent.
UpstreamBodies ==
  Buffers \cup { sent[i].source_image.bytes : i \in 1..Len(sent) }

Next ==
  \/ \E e \in Events : Invoke(e)
  \/ \E status \in Statuses, contentType \in ContentTypes :
       FetchResolve(status, contentType)
  \/ FetchReject
  \/ \E errorBody \in Texts : TextResolve(errorBody)
  \/ TextReject
  \/ \E resultBuffer \in UpstreamBodies : BufferResolve(resultBuffer)
  \/ BufferReject

Spec == Init /\ [][Next]_vars

(***************************************************************************)
(* Vocabulary of the properties, in terms of the request and the upstream's *)
(* answer only                                                              *)
(***************************************************************************)

Invoked == pc # "idle"
Done == pc = "done"
IsPost == Invoked /\ event.httpMethod = "POST"

\* The body is a text that JSON.parse accepts ('' and null count as '{}').
BodyParses == Invoked /\ event.body.k # "malformed"
\* The JSON value of the body.
BodyValue ==
  IF event.body.k = "json" THEN event.body.val ELSE Envelope(Undefined, Undefined)
\* A property of the body's JSON value, Undefined when the value has none.
BodyField(name) ==
  IF name \in DOMAIN BodyValue THEN BodyValue[name] ELSE Undefined

HasMarker(str) == IndexOf(str, Marker, 1) # 0
\* The text after the first marker of a data URL.
AfterMarker(str) == SubSeq(str, IndexOf(str, Marker, 1) + Len(Marker), Len(str))
EndsWithMarker(str) ==
  /\ Len(str) >= Len(Marker)
  /\ SubSeq(str, Len(str) - Len(Marker) + 1, Len(str)) = Marker

\* The request gets through every check of lines 23-44.
PassesValidation ==
  /\ IsPost
  /\ BodyParses
  /\ BodyValue.t = "object"
  /\ Truthy(BodyField("instructions"))
  /\ BodyField("imageBase64").t = "string"
  /\ BodyField("imageBase64").s # << >>
  /\ ~EndsWithMarker(BodyField("imageBase64").s)

Replied == reply # NoReply
UpstreamOk == Replied /\ reply.status \in 200..299
UpstreamNotOk == Replied /\ reply.status \notin 200..299

Returned(status) == outcome.kind = "return" /\ outcome.statusCode = status
ReturnedError(status, message) ==
  Returned(status) /\ outcome.body = [error |-> message]

\* The data URLs data:image/png;base64,3q0= and data:image/png;base64,AAAA,
\* written out.
Lit3q0 ==
  << "d", "a", "t", "a", ":", "i", "m", "a", "g", "e", "/", "p", "n", "g",
     ";", "b", "a", "s", "e", "6", "4", ",", "3", "q", "0", "=" >>
LitAAAA ==
  << "d", "a", "t", "a", ":", "i", "m", "a", "g", "e", "/", "p", "n", "g",
     ";", "b", "a", "s", "e", "6", "4", ",", "A", "A", "A", "A" >>

(***************************************************************************)
(* C1                                                                      *)
(***************************************************************************)

C1_Case ==
  /\ IsPost /\ BodyParses /\ BodyValue.t = "object"
  /\ Truthy(BodyField("instructions"))
  /\ BodyField("imageBase64").t = "string"
  /\ BodyField("imageBase64").s # << >>
  /\ ~HasMarker(BodyField("imageBase64").s)

\* C1: a request whose imageBase64 is a non-empty string without the marker
\* ';base64,' (instructions present) is answered 400 'Invalid Base64 data'
\* and nothing is sent upstream.
C1_NoMarkerRejected ==
  C1_Case => /\ Done
             /\ ReturnedError(400, "Invalid Base64 data")
             /\ sent = << >>

(***************************************************************************)
(* C2                                                                      *)
(***************************************************************************)

C2_Case == IsPost /\ event.body.k = "malformed"

\* C2 as stated: a POST whose body is no JSON is answered 400 with a body
\* { error: string } and nothing is sent upstream.
C2_MalformedIs400 ==
  C2_Case => /\ Done
             /\ Returned(400)
             /\ DOMAIN outcome.body = {"error"}
             /\ outcome.body.error \in STRING
             /\ sent = << >>

\* C2 amended: a POST whose body is no JSON is answered 500 with a body
\* { error: string } and nothing is sent upstream.
C2_MalformedIs500 ==
  C2_Case => /\ Done
             /\ Returned(500)
             /\ DOMAIN outcome.body = {"error"}
             /\ outcome.body.error \in STRING
             /\ sent = << >>

C2_Witness == C2_Case /\ Done /\ Returned(500) /\ parsed

(***************************************************************************)
(* C3                                                                      *)
(***************************************************************************)

C3_Case ==
  /\ IsPost /\ BodyParses
  /\ \/ BodyField("imageBase64") = Undefined
     \/ BodyField("instructions") = Undefined

\* C3: a POST whose JSON body lacks imageBase64 or instructions (an absent
\* or empty body included) is answered 400 'Missing imageBase64 or
\* instructions in request body' and nothing is sent upstream.
C3_MissingFieldsRejected ==
  C3_Case => /\ Done
             /\ ReturnedError(400, "Missing imageBase64 or instructions in request body")
             /\ sent = << >>

(***************************************************************************)
(* C4                                                                      *)
(***************************************************************************)

C4_Case == Invoked /\ event.httpMethod # "POST"

\* C4: a request whose method is not POST is answered 405, whatever its
\* body, without the body being parsed and without a call upstream.
C4_NonPostIs405 ==
  C4_Case => /\ Done
             /\ Returned(405)
             /\ ~parsed
             /\ sent = << >>

\* A GET that carries a body which a POST would have forwarded.
C4_Witness ==
  /\ C4_Case /\ Done /\ Returned(405)
  /\ event.body.k = "json"
  /\ BodyField("imageBase64") = Str(LitAAAA)
  /\ Truthy(BodyField("instructions"))

(***************************************************************************)
(* C5                                                                      *)
(***************************************************************************)

\* C5: when the upstream answers a valid request with a status S outside
\* 200..299 and the body text T, the handler returns status S and the error
\* 'Claid.ai API failed: ' followed by T, and no imageData in any case.
C5_UpstreamFailurePassthrough ==
  (Done /\ UpstreamNotOk) =>
     /\ outcome.kind = "return"
     /\ "imageData" \notin DOMAIN outcome.body
     /\ raised = "none" =>
          /\ received.k = "text"
          /\ Returned(reply.status)
          /\ outcome.body = [error |-> "Claid.ai API failed: " \o received.text]

C5_Witness ==
  /\ Done /\ Replied /\ reply.status = 503
  /\ received = [k |-> "text", text |-> "rate limited"]
  /\ ReturnedError(503, "Claid.ai API failed: rate limited")

(***************************************************************************)
(* C6                                                                      *)
(***************************************************************************)

\* The upstream answered 2xx and its body was read.
C6_Case == Done /\ UpstreamOk /\ raised = "none"

\* C6 as stated: on a 2xx answer the handler returns 200 and imageData
\* 'data:<mime>;base64,<payload>', <mime> being the content-type header
\* when the header is present and image/png when it is absent, <payload>
\* the Base64 of the upstream body.
C6_MimeOfPresentHeader ==
  C6_Case =>
     /\ received.k = "bytes"
     /\ Returned(200)
     /\ outcome.body =
          [imageData |->
             DataUrl(IF reply.contentType.t = "string"
                       THEN reply.contentType.s ELSE PngMime,
                     ToBase64(received.bytes))]

\* C6 amended: as above, <mime> being the content-type header when the
\* header is present and not empty, and image/png when it is absent or
\* empty; the bytes DE AD with content-type image/png give exactly
\* data:image/png;base64,3q0=.
C6_MimeOfNonEmptyHeader ==
  C6_Case =>
     /\ received.k = "bytes"
     /\ Returned(200)
     /\ outcome.body =
          [imageData |->
             DataUrl(IF reply.contentType.t = "string" /\ reply.contentType.s # << >>
                       THEN reply.contentType.s ELSE PngMime,
                     ToBase64(received.bytes))]
     /\ (received.bytes = << 222, 173 >> /\ reply.contentType = Str(PngMime))
          => outcome.body = [imageData |-> Lit3q0]

\* The scenario of the specification: AAAA in, DE AD and image/png back.
C6_Witness ==
  /\ C6_Case
  /\ BodyField("imageBase64") = Str(LitAAAA)
  /\ reply.status = 200 /\ reply.contentType = Str(PngMime)
  /\ received = [k |-> "bytes", bytes |-> << 222, 173 >>]
  /\ outcome.body = [imageData |-> Lit3q0]

(***************************************************************************)
(* C7                                                                      *)
(***************************************************************************)

\* The request carries the data URL of the buffer B, with instructions.
SendsBuffer(B) ==
  /\ IsPost /\ BodyParses /\ BodyValue.t = "object"
  /\ Truthy(BodyField("instructions"))
  /\ BodyField("imageBase64") = Str(DataUrl(PngMime, ToBase64(B)))

\* The upstream is the echo stub: whenever it is called it answers 2xx with
\* the bytes of the source_image part, and the handler reads them.
UpstreamEchoes ==
  sent # << >> =>
     /\ UpstreamOk
     /\ received = [k |-> "bytes", bytes |-> sent[1].source_image.bytes]

RoundTrips(B) ==
  /\ outcome.kind = "return"
  /\ "imageData" \in DOMAIN outcome.body
  /\ HasMarker(outcome.body.imageData)
  /\ BufferFrom(AfterMarker(outcome.body.imageData)) = B

\* C7 as stated: for every byte buffer B, the data URL of B sent through
\* the handler to an echoing upstream comes back as an imageData that
\* decodes to B.
C7_RoundTripEveryBuffer ==
  (Done /\ UpstreamEchoes) =>
     \A B \in Buffers : SendsBuffer(B) => RoundTrips(B)

\* C7 amended: for every byte buffer B that is not empty, the data URL of
\* B sent through the handler to an echoing upstream comes back as an
\* imageData that decodes to B.
C7_RoundTripNonEmptyBuffer ==
  (Done /\ UpstreamEchoes) =>
     \A B \in Buffers \ {<< >>} : SendsBuffer(B) => RoundTrips(B)

C7_Witness ==
  /\ Done /\ SendsBuffer(<< 222, 173 >>) /\ UpstreamEchoes
  /\ sent # << >>
  /\ received.bytes = << 222, 173 >>
  /\ RoundTrips(<< 222, 173 >>)

(***************************************************************************)
(* C8                                                                      *)
(***************************************************************************)

Ends(tr) == { i \in 1..Len(tr) : tr[i] \in {"return", "throw"} }

\* C8: every invocation ends by returning exactly one response and raises
\* nothing to its caller; an exception raised after the method check
\* (parsing the body, destructuring it, split on a value that is no string,
\* the network call, the read of the upstream body) gives status 500 with
\* exactly 'An internal error occurred in the proxy function.', and the
\* detail of the exception is in the log only.
C8_AlwaysOneResponse ==
  /\ ~Done => outcome = Pending /\ Ends(trace) = {}
  /\ Done => /\ outcome.kind = "return"
             /\ Ends(trace) = {Len(trace)}
  /\ raised # "none" =>
        /\ Done
        /\ ReturnedError(500, "An internal error occurred in the proxy function.")
        /\ outcome.body.error # raised
        /\ log # << >> /\ log[Len(log)].detail = raised
  /\ (IsPost /\ ~BodyParses) => raised # "none"
  /\ (IsPost /\ BodyParses /\ BodyValue.t = "null") => raised # "none"
  /\ (IsPost /\ BodyParses /\ BodyValue.t = "object"
        /\ Truthy(BodyField("imageBase64")) /\ Truthy(BodyField("instructions"))
        /\ BodyField("imageBase64").t # "string") => raised # "none"

\* The read of the upstream body failed after a 2xx answer.
C8_Witness ==
  /\ Done /\ UpstreamOk
  /\ raised = "FetchError: Invalid response body while reading buffer"
  /\ ReturnedError(500, "An internal error occurred in the proxy function.")

(***************************************************************************)
(* C9                                                                      *)
(***************************************************************************)

OnlyLogAndCall ==
  \A i \in 1..Len(trace) : trace[i] \in {"log", "fetch", "return"}

LoggedBeforeReturn ==
  /\ Len(trace) >= 2
  /\ trace[Len(trace)] = "return"
  /\ trace[Len(trace) - 1] = "log"

\* The handler answered by itself: method or validation failure.
RejectedByHandler == Done /\ ~Replied /\ raised = "none"

\* C9 as stated: on every failure path (405, both 400s, the upstream
\* passthrough, 500) a line is written to the log before the response is
\* returned, and log writes and the outbound call are the only effects.
C9_EveryFailureLogged ==
  /\ OnlyLogAndCall
  /\ (Done /\ ~(UpstreamOk /\ raised = "none")) => LoggedBeforeReturn

\* C9 amended: on the upstream passthrough and on the 500 path one line is
\* written to the log before the response is returned; on the 405 path and
\* on both 400 paths of the handler nothing is written; on every path log
\* writes and the outbound call are the only effects.
C9_UpstreamAndInternalFailuresLogged ==
  /\ OnlyLogAndCall
  /\ (Done /\ (raised # "none" \/ UpstreamNotOk)) =>
        Len(log) = 1 /\ LoggedBeforeReturn
  /\ RejectedByHandler =>
        /\ outcome.statusCode \in {400, 405}
        /\ log = << >>
        /\ trace = << "return" >>

C9_Witness ==
  /\ Done /\ raised = "FetchError: request to upstream failed"
  /\ trace = << "fetch", "log", "return" >>
  /\ log = << [line |-> "Proxy Error:", detail |-> raised] >>

(***************************************************************************)
(* C10                                                                     *)
(***************************************************************************)

Calls(tr) == { i \in 1..Len(tr) : tr[i] = "fetch" }

\* C10: the upstream is called at most once per invocation: one POST when
\* the request passes validation and none otherwise, never again after an
\* upstream failure or a network error, and the response comes only after
\* the call has settled.
C10_AtMostOneCall ==
  /\ Len(sent) <= 1
  /\ Cardinality(Calls(trace)) = Len(sent)
  /\ Invoked => (Len(sent) = 1 <=> PassesValidation)
  /\ sent # << >> =>
        /\ sent[1].method = "POST"
        /\ sent[1].url = "https://api.claid.ai/v1/image-processing"
  /\ (Done /\ sent # << >>) =>
        /\ Replied \/ raised = "FetchError: request to upstream failed"
        /\ trace[1] = "fetch"

\* The upstream failed, and the call was not repeated.
C10_Witness ==
  /\ Done /\ UpstreamNotOk /\ reply.status = 503
  /\ Len(sent) = 1 /\ Cardinality(Calls(trace)) = 1

====
